---- MODULE Spec2Model ----
(***************************************************************************)
(* Twi DSL playground (src/app.py): the line translator TwiParser.translate, *)
(* the validator Emitter.validate, the denylist gate and the subprocess     *)
(* runner run_code_subprocess, driven by the two endpoints api_translate    *)
(* and api_execute.                                                         *)
(*                                                                          *)
(* Texts are TLA+ strings.  The module's strings are ASCII, so the two      *)
(* non-ASCII letters of the DSL keywords are written with capitals that     *)
(* occur nowhere else in the modelled texts:  "E" stands for U+025B (the    *)
(* open e of "sE", "kyerE", "hwE", "yE") and "O" for U+0254 (the open o of  *)
(* "sO", "bO", "wO", "atOkyE").  Both are single code points, letters for   *)
(* str methods, for \w and for the Python tokenizer, as the capitals are.   *)
(***************************************************************************)
EXTENDS Integers, Sequences, FiniteSets, TLC

VARIABLES
    pc,            \* position of the request handler
    req,           \* the request: endpoint, twi_code, python_code, timeout
    lines,         \* translate: twi_code.strip().splitlines()
    i,             \* translate: number of source lines processed so far
    py_lines,      \* translate: emitted lines
    mapping,       \* translate: the mapping list
    indent_level,  \* translate: the indent counter
    translated,    \* the TranslationResult, when the handler has one
    python_code,   \* the text handed to the validator, the gate and the runner
    gate_checked,  \* denylist entries the gate loop has tested against the text
    run,           \* per runner call: position and locals of run_code_subprocess
    files,         \* temporary files that exist on disk
    procs,         \* child processes spawned so far, in spawn order
    resp,          \* the response of the request
    kept           \* results a caller of translate has kept, in call order

vars == <<pc, req, lines, i, py_lines, mapping, indent_level, translated,
          python_code, gate_checked, run, files, procs, resp, kept>>

\* Python's None, a value outside every text domain.
NONE == "<None>"

(***************************************************************************)
(* str primitives                                                          *)
(***************************************************************************)

\* s[a-1:b] for 1 <= a, b <= Len(s); empty when a > b.
Slice(s, a, b) == IF a > b THEN "" ELSE SubSeq(s, a, b)

\* t in s
Contains(s, t) ==
    \E k \in 1..(Len(s) - Len(t) + 1) : SubSeq(s, k, k + Len(t) - 1) = t

\* s.startswith(t)
StartsWith(s, t) == Len(t) <= Len(s) /\ Slice(s, 1, Len(t)) = t

\* s.endswith(t)
EndsWith(s, t) == Len(t) <= Len(s) /\ Slice(s, Len(s) - Len(t) + 1, Len(s)) = t

\* str.isspace() on one character of the modelled alphabet
IsSpace(c) == c \in {" ", "\t", "\n"}

\* \w on one character of the modelled alphabet
IsWordChar(c) ==
    c \in {"a","b","c","d","e","f","g","h","i","j","k","l","m","n","o","p","q",
           "r","s","t","u","v","w","x","y","z","E","O","_",
           "0","1","2","3","4","5","6","7","8","9"}

\* s.strip()
Strip(s) ==
    LET nonsp == {k \in 1..Len(s) : ~IsSpace(SubSeq(s, k, k))}
    IN  IF nonsp = {} THEN ""
        ELSE LET a == CHOOSE k \in nonsp : \A m \in nonsp : k <= m
                 b == CHOOSE k \in nonsp : \A m \in nonsp : m <= k
             IN  SubSeq(s, a, b)

\* s.splitlines(), for texts whose only line break is "\n"
RECURSIVE SplitLines(_)
SplitLines(s) ==
    IF s = "" THEN <<>>
    ELSE LET nl == {k \in 1..Len(s) : SubSeq(s, k, k) = "\n"}
         IN  IF nl = {} THEN <<s>>
             ELSE LET k == CHOOSE k \in nl : \A m \in nl : k <= m
                  IN  <<Slice(s, 1, k - 1)>> \o SplitLines(Slice(s, k + 1, Len(s)))

\* "\n".join(ls)
RECURSIVE JoinLines(_)
JoinLines(ls) ==
    IF ls = <<>> THEN ""
    ELSE IF Len(ls) = 1 THEN ls[1]
    ELSE ls[1] \o "\n" \o JoinLines(Tail(ls))

\* s.replace(old, new, 1)
ReplaceFirst(s, old, new) ==
    LET at == {k \in 1..(Len(s) - Len(old) + 1) : SubSeq(s, k, k + Len(old) - 1) = old}
    IN  IF at = {} THEN s
        ELSE LET k == CHOOSE k \in at : \A m \in at : k <= m
             IN  Slice(s, 1, k - 1) \o new \o Slice(s, k + Len(old), Len(s))

\* s.replace(old, new): every non-overlapping occurrence, left to right
RECURSIVE ReplaceAll(_, _, _)
ReplaceAll(s, old, new) ==
    LET at == {k \in 1..(Len(s) - Len(old) + 1) : SubSeq(s, k, k + Len(old) - 1) = old}
    IN  IF at = {} THEN s
        ELSE LET k == CHOOSE k \in at : \A m \in at : k <= m
             IN  Slice(s, 1, k - 1) \o new
                   \o ReplaceAll(Slice(s, k + Len(old), Len(s)), old, new)

\* "    " * n
RECURSIVE Indent(_)
Indent(n) == IF n <= 0 THEN "" ELSE "    " \o Indent(n - 1)

(***************************************************************************)
(* TwiParser.translate: the recognizers, in the order the loop tries them  *)
(***************************************************************************)

\* re.match(r'^ka\s+"([^"]*)"$', line): the position of the opening quote, or 0
\* when the line does not match.
KaQuote(line) ==
    IF ~StartsWith(line, "ka") THEN 0
    ELSE LET sp == {k \in 3..Len(line) :
                      \A m \in 3..k : IsSpace(SubSeq(line, m, m))}
             q  == 3 + Cardinality(sp)
         IN  IF /\ sp # {}
                /\ q < Len(line)
                /\ SubSeq(line, q, q) = "\""
                /\ SubSeq(line, Len(line), Len(line)) = "\""
                /\ \A m \in (q + 1)..(Len(line) - 1) : SubSeq(line, m, m) # "\""
             THEN q ELSE 0

ForPrefix == "bO mmirika wO "
ForInfix == " kyekyere "

\* re.match(r"bO mmirika wO (.+) kyekyere (\w+)", line): the positions at
\* which " kyekyere " can stand: after at least one character of group 1
\* and before at least one word character.
ForSplits(line) ==
    IF ~StartsWith(line, ForPrefix) THEN {}
    ELSE {k \in (Len(ForPrefix) + 2)..(Len(line) - Len(ForInfix)) :
            /\ SubSeq(line, k, k + Len(ForInfix) - 1) = ForInfix
            /\ IsWordChar(SubSeq(line, k + Len(ForInfix), k + Len(ForInfix)))}

\* Group 1 is greedy: the match uses the last such position.
ForSplit(line) == CHOOSE k \in ForSplits(line) : \A m \in ForSplits(line) : m <= k

\* m.group(1)
ForIterable(line) == Slice(line, Len(ForPrefix) + 1, ForSplit(line) - 1)

\* m.group(2): the longest run of word characters after " kyekyere "; what
\* follows it on the line is outside the match.
ForVar(line) ==
    LET a == ForSplit(line) + Len(ForInfix)
        e == CHOOSE k \in a..Len(line) :
                 /\ \A m \in a..k : IsWordChar(SubSeq(line, m, m))
                 /\ (k = Len(line) \/ ~IsWordChar(SubSeq(line, k + 1, k + 1)))
    IN  SubSeq(line, a, e)

\* The branch of the loop body that handles a stripped line (first match wins).
Branch(line) ==
    IF line = "" THEN "blank"
    ELSE IF StartsWith(line, "siesie ") THEN "assign"
    ELSE IF KaQuote(line) # 0 THEN "print"
    ELSE IF StartsWith(line, "sO hwE ") THEN "show"
    ELSE IF StartsWith(line, "sE ") /\ EndsWith(line, " a") THEN "if"
    ELSE IF line = "nanso" THEN "else"
    ELSE IF line = "kyerE me" THEN "hint"
    ELSE IF ForSplits(line) # {} THEN "for"
    ELSE IF StartsWith(line, "yE adwuma ") THEN "def"
    ELSE "fallback"

\* KEYWORDS, applied in the dict's order
ReplaceKeywords(line) ==
    ReplaceAll(ReplaceAll(ReplaceAll(line, "nokware", "True"), "atOkyE", "False"),
               "ka ho", "+")

\* What one pass of the loop body yields: the emitted line and the counter
\* after it, or an exception that leaves translate.
Emitted(text, lvl) == [raised |-> FALSE, py_line |-> text, indent_level |-> lvl]
Raised == [raised |-> TRUE, py_line |-> "", indent_level |-> 0]

\* cond = line[2:-2].strip()
IfCond(line) == Strip(Slice(line, 3, Len(line) - 2))

\* Faulty variant: the condition's first character is read before the line is
\* emitted, which raises IndexError on an empty condition.
IfBranchIndexed(line, lvl) ==
    IF IfCond(line) = "" THEN Raised
    ELSE Emitted(Indent(lvl) \o "if " \o IfCond(line) \o ":", lvl + 1)

\* The conditional branch (lines 94-100): slicing never raises, also when
\* the two markers overlap and the condition is empty.
IfBranch(line, lvl) == Emitted(Indent(lvl) \o "if " \o IfCond(line) \o ":", lvl + 1)

\* Faulty variant: the counter is lowered without the floor.
ElseBranchUnclamped(lvl) == Emitted(Indent(lvl - 1) \o "else:", (lvl - 1) + 1)

\* Faulty variant: the else line closes the block: the counter is lowered
\* and stays lowered.
ElseBranchCloses(lvl) ==
    LET low == IF lvl - 1 > 0 THEN lvl - 1 ELSE 0
    IN  Emitted(Indent(low) \o "else:", low)

\* The else branch (lines 103-110): lower the counter (floor 0), emit, raise
\* it again.
ElseBranch(lvl) ==
    LET low == IF lvl - 1 > 0 THEN lvl - 1 ELSE 0
    IN  Emitted(Indent(low) \o "else:", low + 1)

\* Faulty variant: the comment is emitted at the raised counter.
HintBranchNewIndent(lvl) == Emitted(Indent(lvl + 1) \o "# kyerE me (indent)", lvl + 1)

\* The indent-hint branch (lines 113-118): raise the counter, emit the
\* comment at the counter minus one.
HintBranch(lvl) == Emitted(Indent((lvl + 1) - 1) \o "# kyerE me (indent)", lvl + 1)

\* Faulty variant: the definition line leaves the counter as it was.
DefBranchFlat(line, lvl) ==
    LET func == ReplaceFirst(line, "yE adwuma ", "")
        sig  == IF EndsWith(func, ":") THEN func ELSE func \o ":"
    IN  Emitted(Indent(lvl) \o "def " \o sig, lvl)

\* The function-definition branch (lines 132-140).
DefBranch(line, lvl) ==
    LET func == ReplaceFirst(line, "yE adwuma ", "")
        sig  == IF EndsWith(func, ":") THEN func ELSE func \o ":"
    IN  Emitted(Indent(lvl) \o "def " \o sig, lvl + 1)

\* The for branch (lines 121-129).
ForBranch(line, lvl) ==
    Emitted(Indent(lvl) \o "for " \o Strip(ForVar(line)) \o " in "
              \o Strip(ForIterable(line)) \o ":",
            lvl + 1)

\* The fallback branch (lines 143-148).
FallbackBranch(line, lvl) == Emitted(Indent(lvl) \o ReplaceKeywords(line), lvl)

\* One pass of the loop body on the raw line (lines 62-148).
EmitLine(raw, lvl) ==
    LET line == Strip(raw)
        b    == Branch(line)
    IN  CASE b = "blank"  -> Emitted("", lvl)
          [] b = "assign" -> Emitted(Indent(lvl) \o ReplaceFirst(line, "siesie ", ""), lvl)
          [] b = "print"  -> Emitted(Indent(lvl) \o "print(\""
                                       \o Slice(line, KaQuote(line) + 1, Len(line) - 1)
                                       \o "\")",
                                     lvl)
          [] b = "show"   -> Emitted(Indent(lvl) \o "print("
                                       \o ReplaceFirst(line, "sO hwE ", "") \o ")",
                                     lvl)
          [] b = "if"     -> IfBranch(line, lvl)
          [] b = "else"   -> ElseBranch(lvl)
          [] b = "hint"   -> HintBranch(lvl)
          [] b = "for"    -> ForBranch(line, lvl)
          [] b = "def"    -> DefBranch(line, lvl)
          [] OTHER        -> FallbackBranch(line, lvl)

\* Faulty variant: the entry is built before the append.
MapEntryBeforeAppend(n, emitted) == [twi_line |-> n, py_line |-> Len(emitted) - 1]

\* Faulty variant: the source lines are counted from 0.
MapEntryZeroBased(n, emitted) == [twi_line |-> n - 1, py_line |-> Len(emitted)]

\* {"twi_line": i, "py_line": len(py_lines)}, built after the append
MapEntry(n, emitted) == [twi_line |-> n, py_line |-> Len(emitted)]

(***************************************************************************)
(* Emitter.validate: ast.parse on the Python subset the modelled texts     *)
(* fall in.  A text is a sequence of physical lines; blank and comment-only *)
(* lines produce no token; every other line is a statement at the depth of  *)
(* its leading spaces, and the block structure follows the tokenizer's      *)
(* INDENT/DEDENT rules and the grammar of if/for/def/else suites.           *)
(***************************************************************************)

\* Expressions of the subset.
PyExprs == {"x", "x > 3", "range(2)", "5", "1"}

\* Names that can be bound by a for statement.
PyNames == {"i", "x", "f"}

\* Function signatures of the subset.
PySignatures == {"f()"}

\* Simple statements of the subset (each a complete logical line).
PySimple ==
    {"x = 5", "print(\"hi\")", "print(x)", "print(1)", "x = True + 1",
     "x = 1 +pen(2)", "import subprocess", "open(subprocess)", "import os",
     "x = [socket, shutil]", "print(\"shutil\")", "pass"}

\* Number of leading spaces of a physical line.
LeadingSpaces(l) ==
    Cardinality({k \in 1..Len(l) : \A m \in 1..k : SubSeq(l, m, m) = " "})

\* The kind of statement a line body is: a block header, a simple statement,
\* a line whose bracket stays open, or no statement of the grammar.
StmtKind(body) ==
    IF Contains(body, "(") /\ ~Contains(body, ")") THEN "unclosed"
    ELSE IF body = "else:" THEN "else"
    ELSE IF StartsWith(body, "if ") /\ EndsWith(body, ":")
        THEN IF Strip(Slice(body, 4, Len(body) - 1)) \in PyExprs THEN "if" ELSE "invalid"
    ELSE IF StartsWith(body, "for ") /\ EndsWith(body, ":")
        THEN IF \E v \in PyNames, e \in PyExprs :
                    body = "for " \o v \o " in " \o e \o ":"
             THEN "for" ELSE "invalid"
    ELSE IF StartsWith(body, "def ") /\ EndsWith(body, ":")
        THEN IF Slice(body, 5, Len(body) - 1) \in PySignatures THEN "def" ELSE "invalid"
    ELSE IF body \in PySimple THEN "simple"
    ELSE "invalid"

\* A SyntaxError: e.msg and e.lineno.  No error: the empty message.
SyntaxErr(msg, lineno) == [msg |-> msg, lineno |-> lineno]
NoSyntaxErr == SyntaxErr("", 0)

\* No block header is waiting for its suite.
NoHeader == [kind |-> "none", line |-> 0]

\* How the message names the statement whose suite is missing
HeaderName(kind) ==
    IF kind = "def" THEN "function definition" ELSE "'" \o kind \o "' statement"

\* The line begins with a keyword of a statement, not with an expression.
StartsStatement(body) ==
    \E w \in {"if ", "for ", "def ", "else:", "import ", "pass"} : StartsWith(body, w)

\* Simple statements that can stand as an argument of a call: expressions
\* and NAME = expression
PyArguments == {s \in PySimple : ~StartsStatement(s)}

\* The line holds a statement whose bracket stays open.
IsUnclosed(l) ==
    /\ Strip(l) # ""
    /\ ~StartsWith(Strip(l), "#")
    /\ StmtKind(Strip(l)) = "unclosed"

\* The line is NAME = expression, which inside the brackets of a call is a
\* keyword argument.
IsKeywordArg(body) ==
    body \in PyArguments /\ \E v \in PyNames : StartsWith(body, v \o " = ")

\* Inside an open bracket line breaks and indentation do not count: the
\* lines from j on are read as the arguments of the innermost open call,
\* whose argument so far stands on line arg (0: none yet).  last is the line
\* of the innermost bracket left open at the end of the text: once the
\* parser reads behind it the tokenizer's error of the unclosed bracket is
\* what is raised.  Before that the parser fails on the first line that
\* neither opens a further bracket nor is the first argument of its call:
\*  - an expression behind an argument, with no comma between them, is the
\*    comma error on the argument's line; when that expression opens a
\*    bracket itself, it is read on to its own failure first, with no
\*    error of its own (comma is the line of the argument it follows);
\*  - a for header behind a keyword argument makes NAME = value for ... a
\*    comprehension with '=' in it;
\*  - anything else is plain invalid syntax on the line it stands on.
RECURSIVE ParenFail(_, _, _, _, _)
ParenFail(ls, j, last, arg, comma) ==
    IF j > last THEN SyntaxErr("'(' was never closed", last)
    ELSE
      LET body == Strip(ls[j])
      IN  IF body = "" \/ StartsWith(body, "#")
          THEN ParenFail(ls, j + 1, last, arg, comma)
          ELSE IF arg = 0 /\ StmtKind(body) = "unclosed"
          THEN ParenFail(ls, j + 1, last, 0, comma)
          ELSE IF arg = 0 /\ body \in PyArguments
          THEN ParenFail(ls, j + 1, last, j, comma)
          ELSE IF comma # 0
          THEN SyntaxErr("invalid syntax. Perhaps you forgot a comma?", comma)
          ELSE IF arg = 0 THEN SyntaxErr("invalid syntax", j)
          ELSE IF StmtKind(body) = "unclosed"
          THEN ParenFail(ls, j + 1, last, 0, arg)
          ELSE IF ~StartsStatement(body)
          THEN SyntaxErr("invalid syntax. Perhaps you forgot a comma?", arg)
          ELSE IF StmtKind(body) = "for" /\ IsKeywordArg(Strip(ls[arg]))
          THEN SyntaxErr("invalid syntax. Maybe you meant '==' or ':=' instead of '='?",
                         arg)
          ELSE SyntaxErr("invalid syntax", j)

\* The error for a bracket opened on line k and never closed: what the parse
\* of the lines inside it raises, the innermost open bracket being the last
\* line of the text that opens one.
Unclosed(ls, k) ==
    LET open == {j \in k..Len(ls) : IsUnclosed(ls[j])}
        last == CHOOSE j \in open : \A m \in open : m <= j
    IN  ParenFail(ls, k + 1, last, 0, 0)

\* The parse from physical line k on.  stack: the open blocks, innermost
\* last, each with its depth and the kind of the last statement seen at that
\* depth; header: the block header the previous statement was, with its
\* line, or NoHeader.  The result is the SyntaxError raised, or NoSyntaxErr
\* when the text parses.  The tokenizer measures a line's indentation
\* against the open blocks before the parser sees any token of the line.
RECURSIVE ParseFrom(_, _, _, _)
ParseFrom(ls, k, stack, header) ==
    IF k > Len(ls)
    THEN IF header.kind # "none"
         THEN SyntaxErr("expected an indented block after "
                          \o HeaderName(header.kind)
                          \o " on line " \o ToString(header.line),
                        Len(ls))
         ELSE NoSyntaxErr
    ELSE
      LET l      == ls[k]
          d      == LeadingSpaces(l)
          body   == Slice(l, d + 1, Len(l))
          top    == stack[Len(stack)].depth
          expect == header.kind # "none"
      IN  IF Strip(body) = "" \/ StartsWith(body, "#")
          THEN ParseFrom(ls, k + 1, stack, header)
          ELSE IF d < top /\ \A n \in 1..Len(stack) : stack[n].depth # d
          THEN SyntaxErr("unindent does not match any outer indentation level", k)
          ELSE IF expect /\ d <= top
          THEN SyntaxErr("expected an indented block after "
                           \o HeaderName(header.kind)
                           \o " on line " \o ToString(header.line),
                         k)
          ELSE IF ~expect /\ d > top THEN SyntaxErr("unexpected indent", k)
          ELSE
            LET keep  == {n \in 1..Len(stack) : stack[n].depth <= d}
                base  == IF d > top THEN Append(stack, [depth |-> d, last |-> "none"])
                         ELSE SubSeq(stack, 1, Cardinality(keep))
                cur   == base[Len(base)]
                kind  == StmtKind(body)
            IN  IF kind = "unclosed" THEN Unclosed(ls, k)
                ELSE IF kind = "invalid" THEN SyntaxErr("invalid syntax", k)
                ELSE IF kind = "else" /\ cur.last \notin {"if", "for"}
                THEN SyntaxErr("invalid syntax", k)
                ELSE ParseFrom(ls, k + 1,
                               [base EXCEPT ![Len(base)].last = kind],
                               IF kind \in {"if", "for", "def", "else"}
                               THEN [kind |-> kind, line |-> k] ELSE NoHeader)

\* ast.parse(python_code): "" when it parses, else str(e), which is e.msg
\* followed by the file name and the line
ParseError(code) ==
    LET e == ParseFrom(SplitLines(code), 1, <<[depth |-> 0, last |-> "none"]>>,
                       NoHeader)
    IN  IF e.msg = "" THEN ""
        ELSE e.msg \o " (<unknown>, line " \o ToString(e.lineno) \o ")"

\* Faulty variant: the SyntaxError is swallowed and the text reported valid.
ValidateLenient(code) == [ok |-> TRUE, err |-> ""]

\* Emitter.validate: (ok, err)
Validate(code) ==
    LET err == ParseError(code)
    IN  [ok |-> err = "", err |-> err]

(***************************************************************************)
(* Constants of the program and the bounded input domains                  *)
(***************************************************************************)

RUN_TIMEOUT == 4
MAX_OUTPUT_BYTES == 20000

\* The denylist of api_execute, in its order.
forbidden ==
    <<"import os", "import sys", "__import__", "open(", "subprocess", "socket",
      "shutil", "os.system">>

\* Longest source text, in lines.
MaxLines == 2

\* The raw source lines texts are built from: every construct, a malformed
\* conditional, lines with and without denylisted tokens, a line that does
\* not parse and a blank line.
Vocab ==
    {"siesie x = 5", "ka \"hi\"", "sO hwE x", "sE x > 3 a", "sE a", "nanso",
     "kyerE me", "bO mmirika wO range(2) kyekyere i",
     "bO mmirika wO range(2) kyekyere i, subprocess", "yE adwuma f()",
     "import subprocess", "x = 1 ka hopen(2)", "open(subprocess)",
     "subprocess !", ""}

LineSeqs(n) == UNION {[1..k -> Vocab] : k \in 0..n}

\* Further texts: a blank line between two statements and inside a block,
\* blank lines before the first statement and indented source lines, the
\* keywords of the fallback branch, and a conditional with both branches.
LongTexts ==
    {"siesie x = 5\n\nsO hwE x",
     "sE x > 3 a\n\nsO hwE x",
     "\n\nsiesie x = 5\n  sO hwE x",
     "x = nokware ka ho 1",
     "sE x > 3 a\nka \"hi\"\nnanso\nsO hwE x"}

\* twi_code values
TwiTexts == {JoinLines(ls) : ls \in LineSeqs(MaxLines)} \cup LongTexts

\* python_code values
PyTexts == {"print(1)", "import os", "open(", "x = [socket, shutil]",
            "print(\"shutil\")", "if x:\n    import subprocess"}

\* twi_code values sent along with a python_code
BothTexts == {NONE, "import subprocess"}

\* timeout values: one given by the caller, and the default (the requests
\* with twi_code only leave it out)
Timeouts == {1, RUN_TIMEOUT}

\* Most calls of translate one caller makes in a row.
MaxCalls == 2

\* Parser instances.  TwiParser.__init__ sets no attribute (lines 52-53), so
\* an instance is only its identity.
Parsers == {1, 2}

\* Texts for repeated calls: they leave the counter at 0, 1 and 2, and name
\* a keyword of the class-level table.
ParserTexts ==
    {"siesie x = 5", "sE x > 3 a\nsO hwE x", "kyerE me\nyE adwuma f()",
     "x = nokware ka ho 1"}

Requests ==
    {[endpoint |-> "translate", twi_code |-> t, python_code |-> NONE,
      timeout |-> RUN_TIMEOUT] : t \in TwiTexts}
    \cup {[endpoint |-> "execute", twi_code |-> t, python_code |-> NONE,
           timeout |-> RUN_TIMEOUT] : t \in TwiTexts \cup {NONE}}
    \cup {[endpoint |-> "execute", twi_code |-> t, python_code |-> p,
           timeout |-> to] : t \in BothTexts, p \in PyTexts, to \in Timeouts}

(***************************************************************************)
(* Captured output: a byte stream is a sequence of runs of equal bytes'    *)
(* kind: "ascii" (one byte, one character), "multi" (a two-byte UTF-8      *)
(* character) and "bad" (a byte that is no UTF-8).                         *)
(***************************************************************************)

Run3 == <<[kind |-> "ascii", n |-> 3]>>

\* One byte more than the cap, all ASCII
LongAscii == <<[kind |-> "ascii", n |-> MAX_OUTPUT_BYTES + 1]>>

\* As many two-byte characters as the cap counts
LongMulti == <<[kind |-> "multi", n |-> MAX_OUTPUT_BYTES]>>

\* A byte that is no UTF-8, then text
BadFirst == <<[kind |-> "bad", n |-> 1], [kind |-> "ascii", n |-> 3]>>

\* Nothing but a byte that is no UTF-8
BadOnly == <<[kind |-> "bad", n |-> 1]>>

\* (stdout, stderr) pairs a child can have written
StreamPairs ==
    {<<<<>>, <<>>>>, <<Run3, <<>>>>, <<<<>>, Run3>>, <<LongAscii, BadFirst>>,
     <<LongMulti, BadOnly>>}

\* Bytes a character of a run takes in UTF-8 (a bad byte is one byte)
Width(kind) == IF kind = "multi" THEN 2 ELSE 1

\* Length in bytes of a stream, or of a text encoded in UTF-8
RECURSIVE ByteLen(_)
ByteLen(text) ==
    IF text = <<>> THEN 0
    ELSE text[1].n * Width(text[1].kind) + ByteLen(Tail(text))

\* The first n bytes of a stream; a character cut in two leaves a byte that
\* is no UTF-8
RECURSIVE FirstBytes(_, _)
FirstBytes(stream, n) ==
    IF stream = <<>> \/ n <= 0 THEN <<>>
    ELSE LET r == stream[1]
             w == Width(r.kind)
         IN  IF r.n * w <= n
             THEN <<r>> \o FirstBytes(Tail(stream), n - r.n * w)
             ELSE (IF n \div w > 0 THEN <<[kind |-> r.kind, n |-> n \div w]>> ELSE <<>>)
                    \o (IF n % w > 0 THEN <<[kind |-> "bad", n |-> n % w]>> ELSE <<>>)

\* bytes.decode(errors='ignore'): the undecodable bytes are dropped
Decode(stream) == SelectSeq(stream, LAMBDA r : r.kind # "bad")

\* text[:n]
RECURSIVE Cut(_, _)
Cut(text, n) ==
    IF text = <<>> \/ n <= 0 THEN <<>>
    ELSE IF text[1].n <= n THEN <<text[1]>> \o Cut(Tail(text), n - text[1].n)
    ELSE <<[kind |-> text[1].kind, n |-> n]>>

\* out.decode(errors='ignore')[:MAX_OUTPUT_BYTES]
Captured(stream) == Cut(Decode(stream), MAX_OUTPUT_BYTES)

(***************************************************************************)
(* State                                                                   *)
(***************************************************************************)

\* Runner calls.  The request handler makes call 1; call 2 is the call of a
\* second request served by another worker thread at the same time.
Calls == {1, 2}

\* proc.returncode of a child ended by proc.kill() (SIGKILL)
KILLED_CODE == -9

\* Exit codes of a child that ends by itself
ExitCodes == {0, 1}

NoOutcome == [kind |-> "none"]

IdleRun ==
    [st |-> "idle", python_code |-> "", timeout |-> 0, fname |-> 0, proc |-> 0,
     elapsed |-> 0, pipes_open |-> FALSE, outcome |-> NoOutcome]

\* translated = None (line 242)
NoTranslation == [present |-> FALSE, python_code |-> "", mapping |-> <<>>]

NoResp == [status |-> 0, kind |-> "none", keys |-> {}]

Init ==
    /\ pc = "idle"
    /\ req = [endpoint |-> "none"]
    /\ lines = <<>>
    /\ i = 0
    /\ py_lines = <<>>
    /\ mapping = <<>>
    /\ indent_level = 0
    /\ translated = NoTranslation
    /\ python_code = NONE
    /\ gate_checked = <<>>
    /\ run = [c \in Calls |-> IdleRun]
    /\ files = {}
    /\ procs = <<>>
    /\ resp = NoResp
    /\ kept = <<>>

(***************************************************************************)
(* TwiParser.translate, one loop pass per step                             *)
(***************************************************************************)

\* Faulty variant: the counter is an attribute of the parser that a call
\* finds as the call before left it.
TranslateEnterStale(twi_code) ==
    /\ lines' = SplitLines(Strip(twi_code))
    /\ i' = 0
    /\ py_lines' = <<>>
    /\ mapping' = <<>>
    /\ indent_level' = indent_level

\* lines 56-59: the locals of a fresh call
TranslateEnter(twi_code) ==
    /\ lines' = SplitLines(Strip(twi_code))
    /\ i' = 0
    /\ py_lines' = <<>>
    /\ mapping' = <<>>
    /\ indent_level' = 0

\* lines 61-148: the loop body on line i+1.  An exception raised in it would
\* leave translate and the handler (the framework answers 500).
TranslateLine ==
    /\ pc = "translate"
    /\ i < Len(lines)
    /\ LET e == EmitLine(lines[i + 1], indent_level)
       IN  IF e.raised
           THEN /\ pc' = "done"
                /\ resp' = [status |-> 500, kind |-> "fault", keys |-> {},
                            what |-> "translate"]
                /\ UNCHANGED <<i, py_lines, mapping, indent_level>>
           ELSE /\ py_lines' = Append(py_lines, e.py_line)
                /\ mapping' = Append(mapping,
                                     MapEntry(i + 1, Append(py_lines, e.py_line)))
                /\ indent_level' = e.indent_level
                /\ i' = i + 1
                /\ UNCHANGED <<pc, resp>>
    /\ UNCHANGED <<kept, req, lines, translated, python_code, gate_checked, run,
                   files, procs>>

\* lines 150-151, and the caller's use of the result
TranslateReturn ==
    /\ pc = "translate"
    /\ i = Len(lines)
    /\ python_code' = JoinLines(py_lines)
    /\ translated' = [present |-> TRUE, python_code |-> JoinLines(py_lines),
                      mapping |-> mapping]
    /\ pc' = "validate"
    /\ UNCHANGED <<kept, req, lines, i, py_lines, mapping, indent_level, gate_checked,
                   run, files, procs, resp>>

(***************************************************************************)
(* api_translate and api_execute                                           *)
(***************************************************************************)

\* POST /api/translate: lines 221-223
ApiTranslate ==
    /\ pc = "idle"
    /\ \E r \in Requests :
         /\ r.endpoint = "translate"
         /\ req' = r
         /\ TranslateEnter(r.twi_code)
    /\ pc' = "translate"
    /\ UNCHANGED <<kept, translated, python_code, gate_checked, run, files, procs, resp>>

\* POST /api/execute with neither text: lines 233-234
ApiExecuteNeither ==
    /\ pc = "idle"
    /\ \E r \in Requests :
         /\ r.endpoint = "execute"
         /\ r.python_code = NONE /\ r.twi_code = NONE
         /\ req' = r
    /\ resp' = [status |-> 400, kind |-> "bad_request", keys |-> {"detail"},
                message |-> "Provide twi_code or python_code"]
    /\ pc' = "done"
    /\ UNCHANGED <<kept, lines, i, py_lines, mapping, indent_level, translated,
                   python_code, gate_checked, run, files, procs>>

\* POST /api/execute with twi_code only: lines 236-239
ApiExecuteTwi ==
    /\ pc = "idle"
    /\ \E r \in Requests :
         /\ r.endpoint = "execute"
         /\ r.python_code = NONE /\ r.twi_code # NONE
         /\ req' = r
         /\ TranslateEnter(r.twi_code)
    /\ pc' = "translate"
    /\ UNCHANGED <<kept, translated, python_code, gate_checked, run, files, procs, resp>>

\* POST /api/execute with python_code: lines 240-242
ApiExecutePython ==
    /\ pc = "idle"
    /\ \E r \in Requests :
         /\ r.endpoint = "execute"
         /\ r.python_code # NONE
         /\ req' = r
         /\ python_code' = r.python_code
    /\ translated' = NoTranslation
    /\ pc' = "validate"
    /\ UNCHANGED <<kept, lines, i, py_lines, mapping, indent_level, gate_checked, run,
                   files, procs, resp>>

\* Faulty variant: the error detail is built without the text.
SyntaxErrorRespBare(err, code) ==
    [status |-> 400, kind |-> "syntax", keys |-> {"error", "message"},
     message |-> err, python_code |-> ""]

\* The HTTPException of lines 228 and 247
SyntaxErrorResp(err, code) ==
    [status |-> 400, kind |-> "syntax", keys |-> {"error", "message", "python_code"},
     message |-> err, python_code |-> code]

\* lines 225-229 and 245-247: validate, and answer or go on to the gate
ValidateStep ==
    /\ pc = "validate"
    /\ LET v == Validate(python_code)
       IN  IF ~v.ok
           THEN /\ resp' = SyntaxErrorResp(v.err, python_code)
                /\ pc' = "done"
           ELSE IF req.endpoint = "translate"
           THEN /\ resp' = [status |-> 200, kind |-> "translation",
                            keys |-> {"python_code", "mapping"},
                            python_code |-> translated.python_code,
                            mapping |-> translated.mapping]
                /\ pc' = "done"
           ELSE /\ resp' = resp
                /\ pc' = "gate"
    /\ UNCHANGED <<kept, req, lines, i, py_lines, mapping, indent_level, translated,
                   python_code, gate_checked, run, files, procs>>

\* Faulty variant: an entry is matched against the whole text, not searched in it.
FirstForbiddenWhole(code) ==
    LET hits == {k \in 1..Len(forbidden) : code = forbidden[k]}
    IN  IF hits = {} THEN 0 ELSE CHOOSE k \in hits : \A m \in hits : k <= m

\* Faulty variant: the denylist lacks 'subprocess'.
FirstForbiddenShort(code) ==
    LET hits == {k \in 1..Len(forbidden) :
                   forbidden[k] # "subprocess" /\ Contains(code, forbidden[k])}
    IN  IF hits = {} THEN 0 ELSE CHOOSE k \in hits : \A m \in hits : k <= m

\* Faulty variant: the loop goes on after a hit, and the last one is reported.
FirstForbiddenLast(code) ==
    LET hits == {k \in 1..Len(forbidden) : Contains(code, forbidden[k])}
    IN  IF hits = {} THEN 0 ELSE CHOOSE k \in hits : \A m \in hits : m <= k

\* Index of the first denylist entry that occurs in the text, 0 when none
FirstForbidden(code) ==
    LET hits == {k \in 1..Len(forbidden) : Contains(code, forbidden[k])}
    IN  IF hits = {} THEN 0 ELSE CHOOSE k \in hits : \A m \in hits : k <= m

\* lines 250-255: the denylist loop, and on a pass the call of the runner
SafetyGate ==
    /\ pc = "gate"
    /\ LET k == FirstForbidden(python_code)
       IN  IF k # 0
           THEN /\ gate_checked' = SubSeq(forbidden, 1, k)
                /\ resp' = [status |-> 400, kind |-> "forbidden",
                            keys |-> {"error", "message"},
                            token |-> forbidden[k],
                            message |-> "Use of '" \o forbidden[k] \o "' is not allowed"]
                /\ pc' = "done"
                /\ run' = run
           ELSE /\ gate_checked' = forbidden
                /\ resp' = resp
                /\ pc' = "run"
                /\ run' = [run EXCEPT ![1] =
                             [IdleRun EXCEPT !.st = "start",
                                             !.python_code = python_code,
                                             !.timeout = req.timeout]]
    /\ UNCHANGED <<kept, req, lines, i, py_lines, mapping, indent_level, translated,
                   python_code, files, procs>>

(***************************************************************************)
(* run_code_subprocess, per call c                                          *)
(***************************************************************************)

FileNames == {f.name : f \in files}

\* Faulty variant: the name is made from the number of children spawned so
\* far, which two calls can read before either spawns.
FreshNameFixed == Len(procs) + 1

\* A name no existing file has (NamedTemporaryFile creates exclusively).
FreshName == CHOOSE n \in 1..(Cardinality(files) + 1) : n \notin FileNames

\* The file's text, as the child reads it
FileContent(name) == (CHOOSE f \in files : f.name = name).content

\* What the frame does with the temporary file as it unwinds.  The with
\* block of lines 175-177 only closes the file (delete=False); the finally
\* of lines 202-206 removes it, and a failing os.remove is swallowed.
CloseOnly(fs, name) == fs
RemoveFile(fs, name) == {f \in fs : f.name # name}

\* line 175: the temporary file is created, empty
RunCreate(c) ==
    /\ run[c].st = "start"
    /\ files' = files \cup {[name |-> FreshName, content |-> ""]}
    /\ run' = [run EXCEPT ![c].st = "opened", ![c].fname = FreshName]
    /\ UNCHANGED <<kept, pc, req, lines, i, py_lines, mapping, indent_level, translated,
                   python_code, gate_checked, procs, resp>>

\* lines 176-177: the code is written and the file closed
RunWrite(c) ==
    /\ run[c].st = "opened"
    /\ files' = RemoveFile(files, run[c].fname)
                  \cup {[name |-> run[c].fname, content |-> run[c].python_code]}
    /\ run' = [run EXCEPT ![c].st = "written"]
    /\ UNCHANGED <<kept, pc, req, lines, i, py_lines, mapping, indent_level, translated,
                   python_code, gate_checked, procs, resp>>

\* line 176 raises (the text cannot be encoded, the disk is full): the with
\* block closes the file and the exception leaves the function; the try of
\* line 182 has not been entered.
RunWriteFails(c) ==
    /\ run[c].st = "opened"
    /\ files' = CloseOnly(files, run[c].fname)
    /\ run' = [run EXCEPT ![c].st = "raised",
                          ![c].outcome = [kind |-> "error", what |-> "write"]]
    /\ UNCHANGED <<kept, pc, req, lines, i, py_lines, mapping, indent_level, translated,
                   python_code, gate_checked, procs, resp>>

\* line 183: the child is spawned on the file
RunSpawn(c) ==
    /\ run[c].st = "written"
    /\ procs' = Append(procs, [call |-> c, fname |-> run[c].fname,
                               code |-> FileContent(run[c].fname),
                               state |-> "running", written |-> <<<<>>, <<>>>>,
                               returncode |-> 0])
    /\ run' = [run EXCEPT ![c].st = "waiting", ![c].proc = Len(procs) + 1]
    /\ UNCHANGED <<kept, pc, req, lines, i, py_lines, mapping, indent_level, translated,
                   python_code, gate_checked, files, resp>>

\* line 183 raises OSError: no child; the finally clause runs next
RunSpawnFails(c) ==
    /\ run[c].st = "written"
    /\ run' = [run EXCEPT ![c].st = "finally",
                          ![c].outcome = [kind |-> "error", what |-> "spawn"]]
    /\ UNCHANGED <<kept, pc, req, lines, i, py_lines, mapping, indent_level, translated,
                   python_code, gate_checked, files, procs, resp>>

\* line 185: a second passes in communicate(timeout=timeout)
RunTick(c) ==
    /\ run[c].st = "waiting"
    /\ run[c].elapsed < run[c].timeout
    /\ run' = [run EXCEPT ![c].elapsed = @ + 1]
    /\ UNCHANGED <<kept, pc, req, lines, i, py_lines, mapping, indent_level, translated,
                   python_code, gate_checked, files, procs, resp>>

\* What communicate() hands back of the (stdout, stderr) the child wrote to
\* its pipes: all of it, on both paths (lines 185 and 188).
Communicate(io) == io

\* lines 185, 196-201: the child writes its output and ends by itself within
\* the wait
RunChildExits(c) ==
    /\ run[c].st = "waiting"
    /\ \E io \in StreamPairs, code \in ExitCodes :
         /\ run' = [run EXCEPT ![c].st = "finally",
                               ![c].elapsed = 0,
                               ![c].outcome =
                                  [kind |-> "result",
                                   stdout |-> Captured(Communicate(io)[1]),
                                   stderr |-> Captured(Communicate(io)[2]),
                                   timeout |-> FALSE,
                                   exit_code |-> code]]
         /\ procs' = [procs EXCEPT ![run[c].proc].state = "exited",
                                   ![run[c].proc].written = io,
                                   ![run[c].proc].returncode = code]
    /\ UNCHANGED <<kept, pc, req, lines, i, py_lines, mapping, indent_level, translated,
                   python_code, gate_checked, files, resp>>

\* lines 186-187: the wait expires, because the pipes have not reached their
\* end, and proc.kill() is called.  A child that still runs is killed; a
\* child that has ended by itself, while a process it started holds the
\* pipes, gets no signal and keeps its exit code.  The pipes may stay open in
\* a process the child started.
RunTimeoutKill(c) ==
    /\ run[c].st = "waiting"
    /\ run[c].elapsed = run[c].timeout
    /\ \E open \in BOOLEAN, io \in StreamPairs,
          ended \in {[by |-> "kill", code |-> KILLED_CODE]}
                      \cup {[by |-> "itself", code |-> x] : x \in ExitCodes} :
         /\ run' = [run EXCEPT ![c].st = "draining", ![c].elapsed = 0,
                               ![c].pipes_open = open]
         /\ procs' = [procs EXCEPT
                        ![run[c].proc].state =
                            IF ended.by = "kill" THEN "killed" ELSE "exited",
                        ![run[c].proc].written = io,
                        ![run[c].proc].returncode = ended.code]
    /\ UNCHANGED <<kept, pc, req, lines, i, py_lines, mapping, indent_level, translated,
                   python_code, gate_checked, files, resp>>

\* lines 188-194: communicate() with no timeout returns at the end of both
\* pipes, which comes only when no process holds them open
RunDrain(c) ==
    /\ run[c].st = "draining"
    /\ ~run[c].pipes_open
    /\ LET p == procs[run[c].proc]
       IN  run' = [run EXCEPT ![c].st = "finally",
                              ![c].outcome =
                                 [kind |-> "result",
                                  stdout |-> Captured(Communicate(p.written)[1]),
                                  stderr |-> Captured(Communicate(p.written)[2]),
                                  timeout |-> TRUE,
                                  exit_code |-> p.returncode]]
    /\ UNCHANGED <<kept, pc, req, lines, i, py_lines, mapping, indent_level, translated,
                   python_code, gate_checked, files, procs, resp>>

\* lines 202-206: os.remove(fname), then the result is returned or the
\* exception goes on
RunFinally(c) ==
    /\ run[c].st = "finally"
    /\ files' = RemoveFile(files, run[c].fname)
    /\ run' = [run EXCEPT ![c].st =
                 IF run[c].outcome.kind = "result" THEN "returned" ELSE "raised"]
    /\ UNCHANGED <<kept, pc, req, lines, i, py_lines, mapping, indent_level, translated,
                   python_code, gate_checked, procs, resp>>

\* lines 203-206: os.remove raises and the except clause swallows it
RunFinallyRemoveFails(c) ==
    /\ run[c].st = "finally"
    /\ run' = [run EXCEPT ![c].st =
                 IF run[c].outcome.kind = "result" THEN "returned" ELSE "raised"]
    /\ UNCHANGED <<kept, pc, req, lines, i, py_lines, mapping, indent_level, translated,
                   python_code, gate_checked, files, procs, resp>>

\* Faulty variant: the translation fields are set whether or not translate
\* was called.
ExecutionResponseAlways(result, tr) ==
    [status |-> 200, kind |-> "execution",
     keys |-> {"stdout", "stderr", "timeout", "exit_code", "python_code", "mapping"},
     stdout |-> result.stdout,
     stderr |-> result.stderr,
     timeout |-> result.timeout,
     exit_code |-> result.exit_code,
     python_code |-> tr.python_code,
     mapping |-> tr.mapping]

\* lines 256-265: the response dict; keys are the keys it has (python_code
\* and mapping are read only when they are among them)
ExecutionResponse(result, tr) ==
    [status |-> 200, kind |-> "execution",
     keys |-> {"stdout", "stderr", "timeout", "exit_code"}
                \cup (IF tr.present THEN {"python_code", "mapping"} ELSE {}),
     stdout |-> result.stdout,
     stderr |-> result.stderr,
     timeout |-> result.timeout,
     exit_code |-> result.exit_code,
     python_code |-> tr.python_code,
     mapping |-> tr.mapping]

\* lines 255-265: the response of a completed run
ApiExecuteRespond ==
    /\ pc = "run"
    /\ run[1].st = "returned"
    /\ resp' = ExecutionResponse(run[1].outcome, translated)
    /\ pc' = "done"
    /\ UNCHANGED <<kept, req, lines, i, py_lines, mapping, indent_level, translated,
                   python_code, gate_checked, run, files, procs>>

\* line 255: the runner raised, and the exception leaves the handler
ApiExecuteFault ==
    /\ pc = "run"
    /\ run[1].st = "raised"
    /\ resp' = [status |-> 500, kind |-> "fault", keys |-> {},
                what |-> run[1].outcome.what]
    /\ pc' = "done"
    /\ UNCHANGED <<kept, req, lines, i, py_lines, mapping, indent_level, translated,
                   python_code, gate_checked, run, files, procs>>

Runner(c) ==
    \/ RunCreate(c)
    \/ RunWrite(c)
    \/ RunWriteFails(c)
    \/ RunSpawn(c)
    \/ RunSpawnFails(c)
    \/ RunTick(c)
    \/ RunChildExits(c)
    \/ RunTimeoutKill(c)
    \/ RunDrain(c)
    \/ RunFinally(c)
    \/ RunFinallyRemoveFails(c)

Next ==
    \/ ApiTranslate
    \/ ApiExecuteNeither
    \/ ApiExecuteTwi
    \/ ApiExecutePython
    \/ TranslateLine
    \/ TranslateReturn
    \/ ValidateStep
    \/ SafetyGate
    \/ \E c \in Calls : Runner(c)
    \/ ApiExecuteRespond
    \/ ApiExecuteFault

Spec == Init /\ [][Next]_vars

(***************************************************************************)
(* A caller of TwiParser.translate that calls it several times in a row,   *)
(* on one parser instance or on several, and keeps every result            *)
(***************************************************************************)

\* translate(twi_code) is called on a parser: lines 55-59
ParserCall ==
    /\ pc = "idle"
    /\ Len(kept) < MaxCalls
    /\ \E p \in Parsers, t \in ParserTexts :
         /\ req' = [endpoint |-> "call", parser |-> p, twi_code |-> t]
         /\ TranslateEnter(t)
    /\ pc' = "translate"
    /\ UNCHANGED <<kept, translated, python_code, gate_checked, run, files, procs, resp>>

\* The caller keeps the TranslationResult the call returned (line 151).
ParserKeep ==
    /\ pc = "validate"
    /\ req.endpoint = "call"
    /\ kept' = Append(kept, [parser |-> req.parser, twi_code |-> req.twi_code,
                             python_code |-> translated.python_code,
                             mapping |-> translated.mapping])
    /\ pc' = "idle"
    /\ UNCHANGED <<req, lines, i, py_lines, mapping, indent_level, translated,
                   python_code, gate_checked, run, files, procs, resp>>

ParserNext ==
    \/ ParserCall
    \/ TranslateLine
    \/ TranslateReturn
    \/ ParserKeep

ParserSpec == Init /\ [][ParserNext]_vars

(***************************************************************************)
(* Two calls of run_code_subprocess in flight at once: the handlers are     *)
(* plain functions, which the framework runs on worker threads               *)
(***************************************************************************)

\* Texts of the two calls
RunTexts == {"print(1)", "pass"}

\* Both calls have been made (line 255) and none has executed a statement.
RunnerInit ==
    /\ pc = "run"
    /\ req = [endpoint |-> "none"]
    /\ lines = <<>>
    /\ i = 0
    /\ py_lines = <<>>
    /\ mapping = <<>>
    /\ indent_level = 0
    /\ translated = NoTranslation
    /\ python_code = NONE
    /\ gate_checked = forbidden
    /\ run \in {[c \in Calls |-> [IdleRun EXCEPT !.st = "start",
                                                 !.python_code = code[c],
                                                 !.timeout = 1]] :
                   code \in [Calls -> RunTexts]}
    /\ files = {}
    /\ procs = <<>>
    /\ resp = NoResp
    /\ kept = <<>>

RunnerNext == \E c \in Calls : Runner(c)

RunnerSpec == RunnerInit /\ [][RunnerNext]_vars

\* A runner call that can take a step takes one: its code runs to the next
\* statement, the clock of the wait advances, a pipe at its end is read.
FairSpec == Spec /\ WF_vars(\E c \in Calls : Runner(c))

(***************************************************************************)
(* Properties                                                              *)
(***************************************************************************)

\* Some denylist entry occurs in the text.
HasToken(text) == \E k \in 1..Len(forbidden) : Contains(text, forbidden[k])

\* The text an execute request submits: python_code when given, else twi_code.
InputText == IF req.python_code # NONE THEN req.python_code ELSE req.twi_code

\* C1 as stated: an execute request whose input text (twi_code, or the
\* python_code given) contains a denylisted token never enters the runner and
\* spawns no child.
C1_InputGate ==
    (req.endpoint = "execute" /\ HasToken(InputText))
        => (run[1].st = "idle" /\ procs = <<>>)

\* C1, amended: an execute request whose emitted text (the python_code
\* given, or the translation of twi_code) contains a denylisted token never
\* enters the runner, creates no file and spawns no child.
C1_GateBeforeRun ==
    (run[1].st # "idle" \/ procs # <<>> \/ files # {})
        => ~(req.endpoint = "execute" /\ HasToken(python_code))

\* A translated text with a token has been refused by the gate.
C1_Witness ==
    /\ pc = "done"
    /\ req.endpoint = "execute"
    /\ req.python_code = NONE
    /\ HasToken(python_code)
    /\ resp.kind = "forbidden"

\* C2: in execute a text that fails to parse and contains a denylisted token
\* is answered with the syntax error, never the forbidden-construct error,
\* and the denylist is consulted only on text that parses.
C2_SyntaxBeforeGate ==
    /\ (req.endpoint = "execute" /\ pc = "done" /\ python_code # NONE
          /\ ParseError(python_code) # "" /\ HasToken(python_code))
         => (resp.kind = "syntax" /\ gate_checked = <<>>)
    /\ gate_checked # <<>> => ParseError(python_code) = ""

\* An unparseable translated text with a token has been answered.
C2_Witness ==
    /\ pc = "done"
    /\ req.endpoint = "execute"
    /\ req.python_code = NONE
    /\ ParseError(python_code) # ""
    /\ HasToken(python_code)
    /\ resp.kind = "syntax"

\* C3: whenever the validator rejects the text, translate and execute answer
\* 400 with error 'syntax', the whole text (for a translation: every emitted
\* line, joined) and a non-empty message, and neither the gate nor the
\* runner has run.
C3_SyntaxErrorCarriesCode ==
    (pc = "done" /\ python_code # NONE /\ ParseError(python_code) # "")
        => /\ resp.status = 400
           /\ resp.kind = "syntax"
           /\ resp.keys = {"error", "message", "python_code"}
           /\ resp.python_code = python_code
           /\ translated.present =>
                /\ Len(py_lines) = Len(lines)
                /\ resp.python_code = JoinLines(py_lines)
           /\ resp.message # ""
           /\ gate_checked = <<>>
           /\ run[1].st = "idle"
           /\ procs = <<>>

\* The if-header immediately followed by an else, through execute.
C3_Witness ==
    /\ pc = "done"
    /\ req.endpoint = "execute"
    /\ req.twi_code = "sE x > 3 a\nnanso"
    /\ req.python_code = NONE
    /\ resp.kind = "syntax"
    /\ resp.python_code = "if x > 3:\nelse:"

\* A line of the source text that the fallback branch handles contains
\* 'subprocess'.
FallbackHasSubprocess(twi) ==
    /\ Contains(twi, "subprocess")
    /\ LET ls == SplitLines(Strip(twi))
       IN  \E k \in 1..Len(ls) :
               /\ Contains(Strip(ls[k]), "subprocess")
               /\ Branch(Strip(ls[k])) = "fallback"

C4_Case ==
    /\ req.endpoint = "execute"
    /\ req.python_code = NONE
    /\ req.twi_code # NONE
    /\ FallbackHasSubprocess(req.twi_code)

\* Denylist entries tested before 'subprocess'
BeforeSubprocess == {k \in 1..Len(forbidden) :
                        \E m \in (k + 1)..Len(forbidden) : forbidden[m] = "subprocess"}

\* C4 as stated: such a request is answered with the forbidden-construct
\* error naming 'subprocess', and no child is spawned.
C4_NamesSubprocess ==
    (C4_Case /\ pc = "done")
        => (resp.kind = "forbidden" /\ resp.token = "subprocess" /\ procs = <<>>)

\* C4, amended: such a request never enters the runner and spawns no child;
\* it is answered with the syntax error when the emitted text does not
\* parse, and else with the forbidden-construct error, which names
\* 'subprocess' unless an earlier denylist entry occurs in the emitted text,
\* and then names such an entry.
C4_FallbackSubprocess ==
    /\ (run[1].st # "idle" \/ procs # <<>>) => ~C4_Case
    /\ (pc = "done" /\ C4_Case) =>
         IF ParseError(python_code) # ""
         THEN resp.kind = "syntax"
         ELSE /\ resp.kind = "forbidden"
              /\ resp.message = "Use of '" \o resp.token \o "' is not allowed"
              /\ Contains(python_code, resp.token)
              /\ IF \E k \in BeforeSubprocess : Contains(python_code, forbidden[k])
                 THEN \E k \in BeforeSubprocess : resp.token = forbidden[k]
                 ELSE resp.token = "subprocess"

\* A fallback line with 'subprocess' has been refused, naming it.
C4_Witness ==
    /\ C4_Case
    /\ pc = "done"
    /\ resp.kind = "forbidden"
    /\ resp.token = "subprocess"

\* C5: at every point of a translation the mapping has one entry per emitted
\* line, the k-th entry's py_line is k, and the twi_line values do not
\* decrease.
C5_MappingMonotone ==
    /\ Len(mapping) = Len(py_lines)
    /\ \A k \in 1..Len(mapping) :
         /\ mapping[k].py_line = k
         /\ k > 1 => mapping[k - 1].twi_line <= mapping[k].twi_line

\* Two lines have been emitted and mapped.
C5_Witness ==
    /\ pc = "translate"
    /\ Len(py_lines) >= 2
    /\ Len(mapping) >= 2

\* C6: the indent counter is never negative, and an else line met while the
\* counter is 0 is emitted as 'else:' with no indentation, leaves the counter
\* at 1 and the translation running.
C6_IndentNonNegative ==
    /\ [](indent_level >= 0)
    /\ [][(pc = "translate" /\ i < Len(lines) /\ Strip(lines[i + 1]) = "nanso"
             /\ indent_level = 0)
            => (/\ pc' = "translate"
                /\ i' = i + 1
                /\ py_lines' = Append(py_lines, "else:")
                /\ indent_level' = 1)]_vars

\* An else line has been processed while the counter was 0 (after an
\* assignment, which leaves it at 0).
C6_Witness ==
    /\ pc = "translate"
    /\ i = 2
    /\ Strip(lines[1]) = "siesie x = 5"
    /\ Strip(lines[2]) = "nanso"
    /\ py_lines[2] = "else:"
    /\ indent_level = 1

\* C7 as stated: when a runner call has returned or raised, its temporary
\* file no longer exists.
C7_TempFileRemoved ==
    \A c \in Calls :
        run[c].st \in {"returned", "raised"} => run[c].fname \notin FileNames

\* The children a call has spawned
ChildrenOf(c) == {k \in 1..Len(procs) : procs[k].call = c}

\* C8 as stated: a call spawns at most one child, and exactly one once it
\* waits; the child is running during the wait, killed after the wait
\* expired, exited otherwise; a result has timeout = TRUE exactly when the
\* child was killed, holds what the child had written (cut at the cap) on
\* both paths, and for a child that exited by itself holds its exit code.
C8_RunnerLifecycle ==
    \A c \in Calls :
        /\ Cardinality(ChildrenOf(c)) <= 1
        /\ run[c].st \in {"idle", "start", "opened", "written"} => ChildrenOf(c) = {}
        /\ run[c].st \in {"waiting", "draining", "returned"}
             => ChildrenOf(c) = {run[c].proc}
        /\ run[c].st = "waiting" => procs[run[c].proc].state = "running"
        /\ run[c].st = "draining" => procs[run[c].proc].state = "killed"
        /\ run[c].outcome.kind = "result" =>
             LET p == procs[run[c].proc]
                 o == run[c].outcome
             IN  /\ o.timeout <=> p.state = "killed"
                 /\ ~o.timeout => (p.state = "exited" /\ o.exit_code = p.returncode)
                 /\ o.stdout = Captured(p.written[1])
                 /\ o.stderr = Captured(p.written[2])

\* C9 as stated: once the timeout has elapsed in the wait, the call
\* eventually returns or raises.
C9_BoundedWait ==
    \A c \in Calls :
        (run[c].st = "waiting" /\ run[c].elapsed = run[c].timeout)
            ~> (run[c].st \in {"returned", "raised"})

C10_Total ==
    /\ ~(pc = "done" /\ resp.kind = "fault" /\ resp.what = "translate")
    /\ i <= Len(lines)
    /\ Len(py_lines) = i
    /\ translated.present =>
         /\ i = Len(lines)
         /\ translated.python_code = JoinLines(py_lines)
    /\ \A k \in 1..i :
         Branch(Strip(lines[k])) = "fallback"
            => EndsWith(py_lines[k], ReplaceKeywords(Strip(lines[k])))

\* C10: no line makes translate raise; every line processed so far has its
\* emitted line, a line matching no recognizer the fallback's; every step of
\* a translation processes the next line or, with all lines processed,
\* returns the result, so a translation of n lines returns after n + 1 steps.
C10_FallbackTotality ==
    /\ []C10_Total
    /\ [][pc = "translate"
            => \/ pc' = "translate" /\ i' = i + 1 /\ i' <= Len(lines) /\ lines' = lines
               \/ pc' = "validate" /\ i = Len(lines) /\ translated'.present]_vars

\* A malformed conditional and an unrecognized line have been translated.
C10_Witness ==
    /\ pc = "validate"
    /\ translated.present
    /\ \E k \in 1..Len(lines) : Strip(lines[k]) = "sE a"
    /\ \E k \in 1..Len(lines) : Branch(Strip(lines[k])) = "fallback"

\* C11: two calls of translate on the same text return the same code and the
\* same mapping, whichever parser instances they are made on and whatever
\* was translated in between; a call starts with the counter at 0 and with
\* no emitted line and no mapping entry.
C11_Deterministic ==
    /\ \A a, b \in 1..Len(kept) :
         kept[a].twi_code = kept[b].twi_code
            => /\ kept[a].python_code = kept[b].python_code
               /\ kept[a].mapping = kept[b].mapping
    /\ (pc = "translate" /\ i = 0)
         => (indent_level = 0 /\ py_lines = <<>> /\ mapping = <<>>)
    /\ (pc = "validate" /\ req.endpoint = "call")
         => \A a \in 1..Len(kept) :
                kept[a].twi_code = req.twi_code
                   => /\ kept[a].python_code = translated.python_code
                      /\ kept[a].mapping = translated.mapping

\* The same text has been translated twice on one parser, and the first call
\* ended with the counter raised.
C11_Witness ==
    /\ Len(kept) = 2
    /\ kept[1].parser = kept[2].parser
    /\ kept[1].twi_code = "sE x > 3 a\nsO hwE x"
    /\ kept[2].twi_code = kept[1].twi_code
    /\ kept[2].python_code = "if x > 3:\n    print(x)"
    /\ indent_level = 1

\* C12 as stated: in every runner result (the child exited, or the wait
\* expired) stdout and stderr are each at most MAX_OUTPUT_BYTES bytes long
\* when encoded as the child wrote them, and are the stream the child wrote
\* cut at the cap: the whole stream when it has at most MAX_OUTPUT_BYTES
\* bytes, otherwise its first MAX_OUTPUT_BYTES bytes; neither is empty when
\* the child wrote something to it.
C12_OutputCap ==
    \A c \in Calls :
        run[c].outcome.kind = "result" =>
            LET o == run[c].outcome
                w == procs[run[c].proc].written
            IN  /\ ByteLen(o.stdout) <= MAX_OUTPUT_BYTES
                /\ ByteLen(o.stderr) <= MAX_OUTPUT_BYTES
                /\ o.stdout = FirstBytes(w[1], MAX_OUTPUT_BYTES)
                /\ o.stderr = FirstBytes(w[2], MAX_OUTPUT_BYTES)
                /\ w[1] # <<>> => o.stdout # <<>>
                /\ w[2] # <<>> => o.stderr # <<>>

ExecutionKeys == {"stdout", "stderr", "timeout", "exit_code"}

\* C13: an execute request with twi_code only is translated before anything
\* else, and its response to a completed run holds the translation's code
\* and mapping besides the execution fields; with python_code given (with
\* or without twi_code) translate is never entered, the given text is the
\* one validated, and the response holds the execution fields only; with
\* neither text the request is answered 400 with nothing translated,
\* validated, checked or run.
C13_InputModes ==
    req.endpoint = "execute" =>
        /\ (req.python_code = NONE /\ req.twi_code # NONE) =>
              /\ pc = "translate" =>
                    (~translated.present /\ python_code = NONE
                       /\ gate_checked = <<>> /\ resp = NoResp)
              /\ pc \in {"validate", "gate", "run"} =>
                    (translated.present /\ python_code = translated.python_code)
              /\ resp.kind = "execution" =>
                    /\ resp.keys = ExecutionKeys \cup {"python_code", "mapping"}
                    /\ resp.python_code = JoinLines(py_lines)
                    /\ resp.mapping = mapping
                    /\ Len(mapping) = Len(lines)
        /\ req.python_code # NONE =>
              /\ ~translated.present
              /\ lines = <<>> /\ i = 0 /\ py_lines = <<>> /\ mapping = <<>>
              /\ python_code = req.python_code
              /\ resp.kind = "execution" => resp.keys = ExecutionKeys
        /\ (req.python_code = NONE /\ req.twi_code = NONE) =>
              /\ pc = "done"
              /\ resp.status = 400 /\ resp.kind = "bad_request"
              /\ lines = <<>> /\ ~translated.present /\ python_code = NONE
              /\ gate_checked = <<>>
              /\ \A c \in Calls : run[c].st = "idle"
              /\ procs = <<>> /\ files = {}

\* A request with both texts has been run and answered.
C13_Witness ==
    /\ pc = "done"
    /\ req.endpoint = "execute"
    /\ req.twi_code # NONE
    /\ req.python_code # NONE
    /\ resp.kind = "execution"
    /\ resp.keys = ExecutionKeys

\* Positions at which a call holds a temporary file it has not yet tried
\* to remove
HoldsFile == {"opened", "written", "waiting", "draining", "finally"}

\* C14: with two runner calls interleaved in any way, the calls that hold a
\* file hold different files, and a call's file stays on disk with the call's
\* own code until the call itself removes it; every child belongs to one
\* call, was spawned on that call's file and runs that call's code; a call
\* has at most one child, and its result is made of its own child's output,
\* exit code and end, as when it runs alone.
C14_Independent ==
    /\ \A c, d \in Calls :
         (c # d /\ run[c].st \in HoldsFile /\ run[d].st \in HoldsFile)
            => run[c].fname # run[d].fname
    /\ \A c \in Calls :
         /\ run[c].st \in HoldsFile =>
               Cardinality({f \in files : f.name = run[c].fname}) = 1
         /\ run[c].st \in (HoldsFile \ {"opened"}) =>
               FileContent(run[c].fname) = run[c].python_code
         /\ Cardinality(ChildrenOf(c)) <= 1
         /\ run[c].st \in {"waiting", "draining"} => ChildrenOf(c) = {run[c].proc}
         /\ run[c].outcome.kind = "result" =>
               LET p == procs[run[c].proc]
                   o == run[c].outcome
               IN  /\ p.call = c
                   /\ p.state \in {"killed", "exited"}
                   /\ p.state = "killed" => o.timeout
                   /\ o.exit_code = p.returncode
                   /\ o.stdout = Captured(p.written[1])
                   /\ o.stderr = Captured(p.written[2])
    /\ \A k \in 1..Len(procs) :
         /\ procs[k].call \in Calls
         /\ procs[k].code = run[procs[k].call].python_code
         /\ procs[k].fname = run[procs[k].call].fname

\* The two calls run different texts and both wait on a running child.
C14_Witness ==
    /\ run[1].st = "waiting"
    /\ run[2].st = "waiting"
    /\ run[1].python_code # run[2].python_code
    /\ procs[run[1].proc].state = "running"
    /\ procs[run[2].proc].state = "running"

\* The loop is about to process a line of the given branch.
AtBranch(b) ==
    /\ pc = "translate"
    /\ i < Len(lines)
    /\ Branch(Strip(lines[i + 1])) = b

\* C15 as stated: an indent-hint line raises the counter by one and its
\* marker line is emitted at the new, raised indent.
C15_HintAtNewIndent ==
    [][AtBranch("hint")
         => /\ indent_level' = indent_level + 1
            /\ py_lines' = Append(py_lines,
                                  Indent(indent_level') \o "# kyerE me (indent)")]_vars

\* C15, amended: an indent-hint line raises the counter by one and its marker
\* line is emitted at the indent in effect before the line, one level above
\* the lines that follow it.
C15_HintAtOldIndent ==
    [][AtBranch("hint")
         => /\ indent_level' = indent_level + 1
            /\ i' = i + 1
            /\ py_lines' = Append(py_lines,
                                  Indent(indent_level) \o "# kyerE me (indent)")
            /\ LeadingSpaces(py_lines'[i']) = 4 * (indent_level' - 1)]_vars

\* A hint line inside a conditional has been emitted at the conditional's
\* body level, and the counter is one above it.
C15_Witness ==
    /\ pc = "translate"
    /\ i = 2
    /\ Strip(lines[1]) = "sE x > 3 a"
    /\ Strip(lines[2]) = "kyerE me"
    /\ py_lines[2] = "    # kyerE me (indent)"
    /\ indent_level = 2

\* C16 as stated: the twi_line of every mapping entry is the number, within
\* the text as submitted, of the source line the entry's emitted line was
\* made from (the k-th entry is made in the k-th pass of the loop).
C16_SourceOrdinals ==
    \A k \in 1..Len(mapping) :
        LET submitted == SplitLines(req.twi_code)
            n         == mapping[k].twi_line
        IN  /\ n \in 1..Len(submitted)
            /\ Strip(submitted[n]) = Strip(lines[k])

\* The Python word that opens the header a block-opening branch emits
HeaderWord(b) ==
    CASE b = "if" -> "if " [] b = "for" -> "for " [] b = "def" -> "def "

\* C17: a conditional, loop or function-definition line is emitted as an
\* 'if', 'for' or 'def' header at the indent in effect before the line, and
\* the counter then rises by exactly one; an assignment, quoted-print, show
\* or fallback line is emitted at the current indent, a blank line as the
\* empty line, and these leave the counter unchanged.
C17_IndentTransition ==
    [][(pc = "translate" /\ i < Len(lines))
         => LET b   == Branch(Strip(lines[i + 1]))
                out == py_lines'[i + 1]
            IN  /\ Len(py_lines') = i + 1
                /\ b \in {"if", "for", "def"} =>
                      /\ StartsWith(out, Indent(indent_level) \o HeaderWord(b))
                      /\ EndsWith(out, ":")
                      /\ indent_level' = indent_level + 1
                /\ b \in {"assign", "print", "show", "fallback"} =>
                      /\ out # ""
                      /\ StartsWith(out, Indent(indent_level))
                      /\ indent_level' = indent_level
                /\ b \in {"print", "show"} =>
                      StartsWith(out, Indent(indent_level) \o "print(")
                /\ b = "assign" =>
                      out = Indent(indent_level)
                              \o ReplaceFirst(Strip(lines[i + 1]), "siesie ", "")
                /\ b = "fallback" =>
                      out = Indent(indent_level) \o ReplaceKeywords(Strip(lines[i + 1]))
                /\ b = "blank" =>
                      /\ out = ""
                      /\ indent_level' = indent_level]_vars

\* A loop line inside a conditional has been emitted at the conditional's
\* body level and has raised the counter to 2.
C17_Witness ==
    /\ pc = "translate"
    /\ i = 2
    /\ Branch(Strip(lines[1])) = "if"
    /\ Branch(Strip(lines[2])) = "for"
    /\ py_lines[2] = "    for i in range(2):"
    /\ indent_level = 2

\* C18: once the gate has decided on a validated text, the request is
\* refused exactly when some denylist entry occurs in the text as a
\* substring; a refusal names an entry that occurs in the text and that no
\* entry earlier in the denylist does, and nothing is run; otherwise the
\* runner has been called once, with that text.
C18_GateDecision ==
    (req.endpoint = "execute" /\ gate_checked # <<>>) =>
        /\ resp.kind = "forbidden" <=> HasToken(python_code)
        /\ resp.kind = "forbidden" =>
              /\ pc = "done"
              /\ Contains(python_code, resp.token)
              /\ \E k \in 1..Len(forbidden) :
                    /\ forbidden[k] = resp.token
                    /\ \A m \in 1..(k - 1) : ~Contains(python_code, forbidden[m])
              /\ resp.message = "Use of '" \o resp.token \o "' is not allowed"
              /\ \A c \in Calls : run[c].st = "idle"
              /\ procs = <<>> /\ files = {}
        /\ resp.kind # "forbidden" =>
              /\ run[1].st # "idle"
              /\ run[1].python_code = python_code
              /\ \A c \in Calls \ {1} : run[c].st = "idle"
              /\ Len(procs) <= 1

\* A text with two denylisted names has been refused, naming the one that
\* comes first in the denylist.
C18_Witness ==
    /\ pc = "done"
    /\ req.endpoint = "execute"
    /\ python_code = "x = [socket, shutil]"
    /\ resp.kind = "forbidden"
    /\ resp.token = "socket"

\* The k-th source line is emitted as a block header.
Opens(k) == Branch(Strip(lines[k])) \in {"if", "for", "def", "else"}

\* The emitted line k lies inside the block of header j: it is indented at
\* least one level deeper than the header, or is an 'else:' at the header's
\* own level.
Inside(j, k) ==
    \/ LeadingSpaces(py_lines[k]) >= LeadingSpaces(py_lines[j]) + 4
    \/ py_lines[k] = Slice(py_lines[j], 1, LeadingSpaces(py_lines[j])) \o "else:"

\* No step of a translation lowers the counter.
CounterNeverLowered == [][pc = "translate" => indent_level' >= indent_level]_vars

\* C19 as stated: no line lowers the counter, and every line emitted after a
\* block header lies inside the header's block.
C19_EveryLineInside ==
    /\ CounterNeverLowered
    /\ [](\A j, k \in 1..Len(py_lines) : (j < k /\ Opens(j)) => Inside(j, k))

\* C19, amended: no line lowers the counter, and every line emitted after a
\* block header lies inside the header's block or is the empty line a blank
\* source line is emitted as (which has no indentation at any depth).
C19_NoDedent ==
    /\ CounterNeverLowered
    /\ [](\A j, k \in 1..Len(py_lines) :
            (j < k /\ Opens(j)) => (Inside(j, k) \/ py_lines[k] = ""))

\* A conditional with both branches has been translated: the else line is at
\* the header's level, the lines after the headers one level deeper.
C19_Witness ==
    /\ pc = "translate"
    /\ i = 4
    /\ py_lines = <<"if x > 3:", "    print(\"hi\")", "else:", "    print(x)">>
    /\ indent_level = 1

\* C20: after n passes of the loop there are n emitted lines and n mapping
\* entries, the k-th entry has twi_line = py_line = k, so no source line is
\* in two entries, and the k-th emitted line is empty exactly when the k-th
\* line of the stripped text is blank; the result of a translation has as
\* many emitted lines as the stripped text has lines.
C20_OneLinePerLine ==
    /\ Len(py_lines) = i
    /\ Len(mapping) = i
    /\ i <= Len(lines)
    /\ \A k \in 1..Len(mapping) :
         /\ mapping[k].twi_line = k
         /\ mapping[k].py_line = mapping[k].twi_line
         /\ py_lines[k] = "" <=> Strip(lines[k]) = ""
    /\ \A a, b \in 1..Len(mapping) :
         mapping[a].twi_line = mapping[b].twi_line => a = b
    /\ translated.present =>
         /\ lines = SplitLines(Strip(req.twi_code))
         /\ Len(py_lines) = Len(lines)
         /\ translated.mapping = mapping
         /\ translated.python_code = JoinLines(py_lines)

\* A text of three lines, the second blank, has been translated.
C20_Witness ==
    /\ pc = "validate"
    /\ translated.present
    /\ req.twi_code = "siesie x = 5\n\nsO hwE x"
    /\ py_lines = <<"x = 5", "", "print(x)">>
    /\ Len(mapping) = 3

====
